---- MODULE Spec2Model ----
(***************************************************************************)
(* A model of Palace-gui: the settings-backed window of src/app.py and the *)
(* schema inference tool of src/tools/infer_schema.py with the validator   *)
(* of src/tests/test_schema.py.                                            *)
(*                                                                         *)
(* Text is a sequence of tokens.  A token is either one whitespace         *)
(* character (" " or "\n"), one double quote, or a run of characters that  *)
(* neither starts nor ends with whitespace; the text is the concatenation  *)
(* of its tokens.  The empty text is << >>.                                *)
(***************************************************************************)
EXTENDS Integers, Sequences, FiniteSets, TLC

VARIABLES
    running,          \* "closed" | "open" | "crashed": the application process
    project_dir,      \* MainWindow.project_dir
    gmsh_path,        \* MainWindow.gmsh_path
    project_dir_edit, \* text of the QLineEdit on the Project tab
    gmsh_edit,        \* text of the Gmsh path QLineEdit
    geometry_edit,    \* text of the geometry file QLineEdit
    mode_combo,       \* current text of the mode QComboBox
    script_edit,      \* plain text of the script QPlainTextEdit
    settings_json,    \* settings.json next to the application
    run_palace_sh,    \* run_palace.sh, per project directory
    effects,          \* dialogs shown / processes started / folders opened
                      \* by the handler that ran last
    tool              \* state of one run of tools/infer_schema.py and the test

vars == <<running, project_dir, gmsh_path, project_dir_edit, gmsh_edit,
          geometry_edit, mode_combo, script_edit, settings_json,
          run_palace_sh, effects, tool>>

guiVars == <<running, project_dir, gmsh_path, project_dir_edit, gmsh_edit,
             geometry_edit, mode_combo, script_edit, settings_json,
             run_palace_sh, effects>>

(***************************************************************************)
(* Bounds of the model.                                                    *)
(***************************************************************************)
MaxScriptLen == 2   \* tokens in a script template the user types
MaxExamples == 2    \* example files below the example directories

(***************************************************************************)
(* Text helpers.                                                           *)
(***************************************************************************)
NL == "\n"
SP == " "
QUOTE == "\""
Whitespace == {SP, NL}

RECURSIVE TextsUpTo(_, _)
TextsUpTo(tokens, n) ==
    IF n = 0 THEN {<< >>}
    ELSE LET shorter == TextsUpTo(tokens, n - 1)
         IN shorter \cup {Append(t, c) : t \in shorter, c \in tokens}

RECURSIVE LStrip(_)
LStrip(text) ==
    IF text = << >> THEN << >>
    ELSE IF Head(text) \in Whitespace THEN LStrip(Tail(text)) ELSE text

RECURSIVE RStrip(_)
RStrip(text) ==
    IF text = << >> THEN << >>
    ELSE IF text[Len(text)] \in Whitespace
         THEN RStrip(SubSeq(text, 1, Len(text) - 1)) ELSE text

\* str.strip()
Strip(text) == RStrip(LStrip(text))

\* "\n".join(lines)
RECURSIVE JoinLines(_)
JoinLines(lines) ==
    IF lines = << >> THEN << >>
    ELSE IF Len(lines) = 1 THEN lines[1]
    ELSE lines[1] \o <<NL>> \o JoinLines(Tail(lines))

\* The string escaping of json.dumps and its inverse in json.loads, on the
\* tokens of the model that JSON escapes: newline and the double quote.
EscapeToken(t) == IF t = NL THEN "\\n" ELSE IF t = QUOTE THEN "\\\"" ELSE t
UnescapeToken(t) == IF t = "\\n" THEN NL ELSE IF t = "\\\"" THEN QUOTE ELSE t
JsonEscape(text) == [i \in 1..Len(text) |-> EscapeToken(text[i])]
JsonUnescape(text) == [i \in 1..Len(text) |-> UnescapeToken(text[i])]

\* Path.as_posix() on a POSIX host: trailing separators are dropped.
RECURSIVE AsPosix(_)
AsPosix(p) ==
    IF Len(p) > 1 /\ p[Len(p)] = "/" THEN AsPosix(SubSeq(p, 1, Len(p) - 1))
    ELSE p

(***************************************************************************)
(* Program constants of src/app.py.                                        *)
(***************************************************************************)
MPI == "MPI (mpiexec)"
SLURM == "Slurm (srun + SBATCH)"
CUSTOM == "Custom"
Modes == {MPI, SLURM, CUSTOM}

DEFAULT_TEMPLATES ==
    [m \in Modes |->
        CASE m = MPI ->
               JoinLines(<< <<"# Run with MPI">>,
                            <<"mpiexec -n 4 palace -c", SP,
                              QUOTE, "$CONFIG", QUOTE>> >>)
          [] m = SLURM ->
               JoinLines(<< <<"#SBATCH --job-name=palace">>,
                            <<"#SBATCH --nodes=1">>,
                            <<"#SBATCH --ntasks=4">>,
                            <<"#SBATCH --time=01:00:00">>,
                            << >>,
                            <<"srun palace -c", SP,
                              QUOTE, "$CONFIG", QUOTE>> >>)
          [] OTHER -> <<"# Write your custom command here">>]

OsName == "posix"   \* os.name of the modelled host

SHEBANG == "#!/usr/bin/env bash"
CONFIG_LINE == "CONFIG=\"$PROJECT_DIR/config.json\""

\* The fixed lines generate_script puts before the template body.
Preamble(dir) ==
    << <<SHEBANG>>,
       <<"set -e">>,
       <<"SCRIPT_DIR=\"$(cd \"$(dirname \"$0\")\" && pwd)\"">>,
       <<"cd \"$SCRIPT_DIR\"">>,
       <<"PROJECT_DIR=\"">> \o AsPosix(dir) \o <<"\"">>,
       <<CONFIG_LINE>>,
       <<"cd \"$PROJECT_DIR\"">> >>

(***************************************************************************)
(* Inputs of the window: what the dialogs return and what the user types.  *)
(***************************************************************************)
ProjDir == <<"/work/proj">>
GmshExe == <<"/opt/gmsh/bin/gmsh">>
GeoFile == <<"mesh.geo">>

DirChoices == {<< >>, ProjDir}          \* << >>: the dialog was cancelled
GmshChoices == {<< >>, GmshExe}
GeoChoices == {<< >>, GeoFile}
DirTyped == {<< >>, ProjDir}
GmshTyped == {<< >>, GmshExe}
GeoTexts == {<< >>, <<SP>>, GeoFile, <<SP>> \o GeoFile \o <<SP>>}
ScriptTexts ==
    TextsUpTo({NL, SHEBANG}, MaxScriptLen) \cup {DEFAULT_TEMPLATES[m] : m \in Modes}

PosixDirs == {AsPosix(ProjDir)}

(***************************************************************************)
(* settings.json.  form is "absent" (no file), "notjson" (text json.loads  *)
(* rejects), "nonobject" (JSON whose top level is not an object) or        *)
(* "object"; has is the set of keys of the object; the text fields hold    *)
(* the JSON-escaped strings.                                               *)
(***************************************************************************)
Fields == {"project_dir", "gmsh_path", "run_mode", "script_template",
           "geometry_file"}

NoFields ==
    [has |-> {}, project_dir |-> << >>, gmsh_path |-> << >>, run_mode |-> "",
     script_template |-> << >>, geometry_file |-> << >>]

FileOf(form) == [form |-> form] @@ NoFields

\* A window's fields as one record.
Window ==
    [project_dir |-> project_dir, gmsh_path |-> gmsh_path,
     project_dir_edit |-> project_dir_edit, gmsh_edit |-> gmsh_edit,
     geometry_edit |-> geometry_edit, mode_combo |-> mode_combo,
     script_edit |-> script_edit]

\* MainWindow.__init__ before _load_settings.
NewWindow ==
    [project_dir |-> << >>, gmsh_path |-> << >>,
     project_dir_edit |-> << >>, gmsh_edit |-> << >>,
     geometry_edit |-> << >>, mode_combo |-> MPI,
     script_edit |-> DEFAULT_TEMPLATES[MPI]]

\* json.dumps of the settings dict, as written by _save_settings.
save_settings(w) ==
    [form |-> "object", has |-> Fields,
     project_dir |-> JsonEscape(w.project_dir),
     gmsh_path |-> JsonEscape(w.gmsh_path),
     run_mode |-> w.mode_combo,
     script_template |-> JsonEscape(w.script_edit),
     geometry_file |-> JsonEscape(Strip(w.geometry_edit))]

\* json.loads of an object file: the dict, with its strings unescaped.
JsonLoads(file) ==
    [has |-> file.has,
     project_dir |-> JsonUnescape(file.project_dir),
     gmsh_path |-> JsonUnescape(file.gmsh_path),
     run_mode |-> file.run_mode,
     script_template |-> JsonUnescape(file.script_template),
     geometry_file |-> JsonUnescape(file.geometry_file)]

\* A slot that saves the new mode and leaves the template alone.
on_mode_changed_keeps_template(w) == [w |-> w, file |-> save_settings(w)]

\* The slot connected to mode_combo.currentTextChanged; w.mode_combo is
\* already the new mode.  setPlainText emits textChanged (a save) and the
\* handler saves again.
on_mode_changed(w) ==
    LET w1 == [w EXCEPT !.script_edit = DEFAULT_TEMPLATES[w.mode_combo]]
    IN [w |-> w1, file |-> save_settings(w1)]

\* MainWindow._load_settings on a freshly built window and the file's
\* content.  The saves are those of the slots the widget signals run:
\* currentTextChanged -> _on_mode_changed, script_edit.textChanged and
\* geometry_edit.textChanged -> _save_settings.  A QLineEdit and the combo
\* box signal only a value that differs from the current one.
load_settings(file) ==
    IF file.form \in {"absent", "notjson"}
    THEN [crashed |-> FALSE, w |-> NewWindow, file |-> file]
    ELSE IF file.form # "object"
    THEN [crashed |-> TRUE, w |-> NewWindow, file |-> file]
    ELSE
    LET settings == JsonLoads(file)
        Has(key) == key \in settings.has
        pd == IF Has("project_dir") THEN settings.project_dir ELSE << >>
        gp == IF Has("gmsh_path") THEN settings.gmsh_path ELSE << >>
        w1 == [NewWindow EXCEPT !.project_dir = pd, !.project_dir_edit = pd,
                                !.gmsh_path = gp, !.gmsh_edit = gp]
        saved_mode == IF Has("run_mode") THEN settings.run_mode ELSE MPI
        s2 == IF saved_mode \in Modes /\ saved_mode # w1.mode_combo
              THEN on_mode_changed([w1 EXCEPT !.mode_combo = saved_mode])
              ELSE [w |-> w1, file |-> file]
        s3 == IF Has("script_template") /\ settings.script_template # << >>
              THEN LET w3 == [s2.w EXCEPT
                                !.script_edit = settings.script_template]
                   IN [w |-> w3, file |-> save_settings(w3)]
              ELSE s2
        geometry_file == IF Has("geometry_file") THEN settings.geometry_file
                         ELSE << >>
        s4 == IF geometry_file # s3.w.geometry_edit
              THEN LET w4 == [s3.w EXCEPT !.geometry_edit = geometry_file]
                   IN [w |-> w4, file |-> save_settings(w4)]
              ELSE s3
    IN [crashed |-> FALSE, w |-> s4.w, file |-> s4.file]

(***************************************************************************)
(* External effects of a handler.                                          *)
(***************************************************************************)
Dialog(icon, title) ==
    [kind |-> "dialog", icon |-> icon, title |-> title,
     program |-> << >>, args |-> << >>, cwd |-> << >>]
Process(program, args, cwd) ==
    [kind |-> "process", icon |-> "", title |-> "",
     program |-> program, args |-> args, cwd |-> cwd]
OpenUrl(dir) ==
    [kind |-> "open", icon |-> "", title |-> "",
     program |-> << >>, args |-> << >>, cwd |-> dir]
ShowWindow ==
    [kind |-> "window", icon |-> "", title |-> "Palace GUI - MVP (Windows + Conda)",
     program |-> << >>, args |-> << >>, cwd |-> << >>]
Traceback ==
    [kind |-> "error", icon |-> "", title |-> "AttributeError",
     program |-> << >>, args |-> << >>, cwd |-> << >>]

MissingProjectDir == Dialog("warning", "Missing project directory")
MissingGmsh == Dialog("warning", "Missing gmsh.exe")
FailedToLaunch == Dialog("critical", "Failed to launch")
ScriptGenerated == Dialog("information", "Script generated")

\* A launch that does not look whether the executable exists.
launch_gmsh_unchecked(w, exists, ok) ==
    IF w.project_dir = << >> THEN <<MissingProjectDir>>
    ELSE IF w.gmsh_path = << >> THEN <<MissingGmsh>>
    ELSE LET geometry_file == Strip(w.geometry_edit)
             args == IF geometry_file # << >> THEN <<geometry_file>> ELSE << >>
         IN IF ok THEN <<Process(w.gmsh_path, args, w.project_dir)>>
            ELSE <<FailedToLaunch>>

\* MainWindow._launch_gmsh; exists is Path(gmsh_path).exists() and ok the
\* result of QProcess.startDetached.
launch_gmsh(w, exists, ok) ==
    IF w.project_dir = << >> THEN <<MissingProjectDir>>
    ELSE IF w.gmsh_path = << >> \/ ~exists THEN <<MissingGmsh>>
    ELSE LET geometry_file == Strip(w.geometry_edit)
             args == IF geometry_file # << >> THEN <<geometry_file>> ELSE << >>
         IN IF ok THEN <<Process(w.gmsh_path, args, w.project_dir)>>
            ELSE <<FailedToLaunch>>

\* MainWindow._open_project_folder
open_project_folder(w) ==
    IF w.project_dir = << >> THEN <<MissingProjectDir>>
    ELSE <<OpenUrl(w.project_dir)>>

\* A script whose body is the template as typed, not stripped.
script_content_unstripped(w) ==
    JoinLines(Preamble(w.project_dir) \o << << >>, w.script_edit, << >> >>)

\* The text _generate_script writes.
script_content(w) ==
    JoinLines(Preamble(w.project_dir)
              \o << << >>, Strip(w.script_edit), << >> >>)

\* MainWindow._generate_script: the files and effects after it.
generate_script(w, file, scripts) ==
    IF w.project_dir = << >>
    THEN [file |-> file, scripts |-> scripts, effects |-> <<MissingProjectDir>>]
    ELSE [file |-> save_settings(w),
          scripts |-> [scripts EXCEPT ![AsPosix(w.project_dir)] =
                          [exists |-> TRUE, content |-> script_content(w),
                           exec |-> (OsName # "nt") \/ @.exec]],
          effects |-> <<ScriptGenerated>>]

NoScript == [exists |-> FALSE, content |-> << >>, exec |-> FALSE]

(***************************************************************************)
(* The window as a state machine.                                          *)
(***************************************************************************)
SetWindow(w) ==
    /\ project_dir' = w.project_dir
    /\ gmsh_path' = w.gmsh_path
    /\ project_dir_edit' = w.project_dir_edit
    /\ gmsh_edit' = w.gmsh_edit
    /\ geometry_edit' = w.geometry_edit
    /\ mode_combo' = w.mode_combo
    /\ script_edit' = w.script_edit

windowVars == <<project_dir, gmsh_path, project_dir_edit, gmsh_edit,
                geometry_edit, mode_combo, script_edit>>

\* Settings files the application did not write: none, text that is not
\* JSON, JSON that is not an object, and objects lacking some of the keys.
SampleRecord(mode) ==
    [form |-> "object", has |-> Fields,
     project_dir |-> JsonEscape(ProjDir),
     gmsh_path |-> JsonEscape(GmshExe),
     run_mode |-> mode,
     script_template |-> JsonEscape(<<NL, SHEBANG>>),
     geometry_file |-> JsonEscape(GeoFile)]

Restrict(file, keys) ==
    [form |-> "object", has |-> keys,
     project_dir |-> IF "project_dir" \in keys THEN file.project_dir ELSE << >>,
     gmsh_path |-> IF "gmsh_path" \in keys THEN file.gmsh_path ELSE << >>,
     run_mode |-> IF "run_mode" \in keys THEN file.run_mode ELSE "",
     script_template |->
        IF "script_template" \in keys THEN file.script_template ELSE << >>,
     geometry_file |->
        IF "geometry_file" \in keys THEN file.geometry_file ELSE << >>]

ForeignFiles ==
    {FileOf("absent"), FileOf("notjson"), FileOf("nonobject")}
    \cup {Restrict(SampleRecord(m), keys) :
              m \in {CUSTOM, "Turbo"}, keys \in (SUBSET Fields) \ {Fields}}

InitTool == tool = [pc |-> "idle"]

Init ==
    /\ running = "closed"
    /\ project_dir = NewWindow.project_dir
    /\ gmsh_path = NewWindow.gmsh_path
    /\ project_dir_edit = NewWindow.project_dir_edit
    /\ gmsh_edit = NewWindow.gmsh_edit
    /\ geometry_edit = NewWindow.geometry_edit
    /\ mode_combo = NewWindow.mode_combo
    /\ script_edit = NewWindow.script_edit
    /\ settings_json \in ForeignFiles
    /\ run_palace_sh = [d \in PosixDirs |-> NoScript]
    /\ effects = << >>
    /\ InitTool

\* MainWindow(): __init__ builds the widgets and runs _load_settings; an
\* exception leaves no window.
Start ==
    /\ running # "open"
    /\ LET r == load_settings(settings_json)
       IN /\ running' = IF r.crashed THEN "crashed" ELSE "open"
          /\ SetWindow(r.w)
          /\ settings_json' = r.file
          /\ effects' = IF r.crashed THEN <<Traceback>> ELSE <<ShowWindow>>
    /\ UNCHANGED <<run_palace_sh, tool>>

\* The user closes the window; the process and its widgets are gone.
Close ==
    /\ running = "open"
    /\ running' = "closed"
    /\ SetWindow(NewWindow)
    /\ effects' = << >>
    /\ UNCHANGED <<settings_json, run_palace_sh, tool>>

\* MainWindow._choose_project_dir; d is what the directory dialog returns.
ChooseProjectDir ==
    /\ running = "open"
    /\ \E d \in DirChoices :
          IF d # << >>
          THEN LET w == [Window EXCEPT !.project_dir = d, !.project_dir_edit = d]
               IN SetWindow(w) /\ settings_json' = save_settings(w)
          ELSE UNCHANGED <<windowVars, settings_json>>
    /\ effects' = << >>
    /\ UNCHANGED <<running, run_palace_sh, tool>>

\* The user types into the project directory line edit: no slot is
\* connected to it.
TypeProjectDir ==
    /\ running = "open"
    /\ \E t \in DirTyped \ {project_dir_edit} :
          SetWindow([Window EXCEPT !.project_dir_edit = t])
    /\ effects' = << >>
    /\ UNCHANGED <<running, settings_json, run_palace_sh, tool>>

\* MainWindow._choose_gmsh_exe
ChooseGmshExe ==
    /\ running = "open"
    /\ \E f \in GmshChoices :
          IF f # << >>
          THEN LET w == [Window EXCEPT !.gmsh_path = f, !.gmsh_edit = f]
               IN SetWindow(w) /\ settings_json' = save_settings(w)
          ELSE UNCHANGED <<windowVars, settings_json>>
    /\ effects' = << >>
    /\ UNCHANGED <<running, run_palace_sh, tool>>

\* The user types into the Gmsh path line edit: no slot is connected to it.
TypeGmshPath ==
    /\ running = "open"
    /\ \E t \in GmshTyped \ {gmsh_edit} :
          SetWindow([Window EXCEPT !.gmsh_edit = t])
    /\ effects' = << >>
    /\ UNCHANGED <<running, settings_json, run_palace_sh, tool>>

\* MainWindow._choose_geometry_file: setText (textChanged saves when the
\* text differs) and the handler's own save.
ChooseGeometryFile ==
    /\ running = "open"
    /\ \E f \in GeoChoices :
          IF f # << >>
          THEN LET w == [Window EXCEPT !.geometry_edit = f]
               IN SetWindow(w) /\ settings_json' = save_settings(w)
          ELSE UNCHANGED <<windowVars, settings_json>>
    /\ effects' = << >>
    /\ UNCHANGED <<running, run_palace_sh, tool>>

\* The user edits the geometry line edit: textChanged -> _save_settings.
TypeGeometry ==
    /\ running = "open"
    /\ \E t \in GeoTexts \ {geometry_edit} :
          LET w == [Window EXCEPT !.geometry_edit = t]
          IN SetWindow(w) /\ settings_json' = save_settings(w)
    /\ effects' = << >>
    /\ UNCHANGED <<running, run_palace_sh, tool>>

\* The user edits the script template: textChanged -> _save_settings.
EditScript ==
    /\ running = "open"
    /\ \E t \in ScriptTexts \ {script_edit} :
          LET w == [Window EXCEPT !.script_edit = t]
          IN SetWindow(w) /\ settings_json' = save_settings(w)
    /\ effects' = << >>
    /\ UNCHANGED <<running, run_palace_sh, tool>>

\* The user picks another mode: currentTextChanged -> _on_mode_changed.
ChangeMode ==
    /\ running = "open"
    /\ \E m \in Modes \ {mode_combo} :
          LET r == on_mode_changed([Window EXCEPT !.mode_combo = m])
          IN SetWindow(r.w) /\ settings_json' = r.file
    /\ effects' = << >>
    /\ UNCHANGED <<running, run_palace_sh, tool>>

\* The Launch Gmsh button.
LaunchGmshWith(exists, ok) ==
    /\ running = "open"
    /\ effects' = launch_gmsh(Window, exists, ok)
    /\ UNCHANGED <<running, windowVars, settings_json, run_palace_sh, tool>>

LaunchGmsh == \E exists \in BOOLEAN, ok \in BOOLEAN : LaunchGmshWith(exists, ok)

\* The Open Folder button.
OpenProjectFolder ==
    /\ running = "open"
    /\ effects' = open_project_folder(Window)
    /\ UNCHANGED <<running, windowVars, settings_json, run_palace_sh, tool>>

\* The Generate Script button.
GenerateScript ==
    /\ running = "open"
    /\ LET r == generate_script(Window, settings_json, run_palace_sh)
       IN /\ settings_json' = r.file
          /\ run_palace_sh' = r.scripts
          /\ effects' = r.effects
    /\ UNCHANGED <<running, windowVars, tool>>

Next ==
    \/ Start
    \/ Close
    \/ ChooseProjectDir
    \/ TypeProjectDir
    \/ ChooseGmshExe
    \/ TypeGmshPath
    \/ ChooseGeometryFile
    \/ TypeGeometry
    \/ EditScript
    \/ ChangeMode
    \/ LaunchGmsh
    \/ OpenProjectFolder
    \/ GenerateScript

Spec == Init /\ [][Next]_vars

(***************************************************************************)
(* Claims about the window.                                                *)
(***************************************************************************)
\* The five settings fields the window currently shows and holds.
Current ==
    [project_dir |-> project_dir, gmsh_path |-> gmsh_path,
     run_mode |-> mode_combo, script_template |-> script_edit,
     geometry_file |-> geometry_edit]

\* The five fields of a settings file.
Record(file) ==
    LET s == JsonLoads(file)
    IN [project_dir |-> s.project_dir, gmsh_path |-> s.gmsh_path,
        run_mode |-> s.run_mode, script_template |-> s.script_template,
        geometry_file |-> s.geometry_file]

\* A file _save_settings wrote: an object with the five keys and a mode of
\* the combo box.
IsSavedRecord(file) ==
    file.form = "object" /\ file.has = Fields /\ file.run_mode \in Modes

StartStep == running # "open" /\ running' # running

\* C1: a record written by _save_settings and loaded by a freshly built
\* window is reproduced in the window's five fields and is what
\* settings.json holds when loading has finished.
C1_RoundTrip ==
    [][(StartStep /\ IsSavedRecord(settings_json))
        => /\ running' = "open"
           /\ Current' = Record(settings_json)
           /\ Record(settings_json') = Record(settings_json)]_vars

\* What the code does keep for every saved record: all fields but the
\* template, and the template when it is not empty.
C1_RoundTripNonEmptyTemplate ==
    [][(StartStep /\ IsSavedRecord(settings_json)
        /\ Record(settings_json).script_template # << >>)
        => /\ running' = "open"
           /\ Current' = Record(settings_json)
           /\ settings_json' = settings_json]_vars

\* The widgets, the in-memory state and settings.json agree.
InSync ==
    /\ project_dir = project_dir_edit
    /\ gmsh_path = gmsh_edit
    /\ settings_json.form = "object"
    /\ settings_json.has = Fields
    /\ Record(settings_json) = Current

\* A step of the open window that changed what a widget shows.
EditStep == running = "open" /\ running' = "open" /\ windowVars' # windowVars

\* C2: after every user edit of one of the five fields the in-memory
\* project_dir and gmsh_path equal what the widgets show and settings.json
\* holds the current value of all five fields.
C2_SettingsSync == [][EditStep => InSync']_vars

\* text.split("\n")
RECURSIVE SplitLines(_)
SplitLines(text) ==
    IF \A i \in 1..Len(text) : text[i] # NL THEN <<text>>
    ELSE LET k == CHOOSE i \in 1..Len(text) :
                     text[i] = NL /\ \A j \in 1..(i - 1) : text[j] # NL
         IN <<SubSeq(text, 1, k - 1)>>
            \o SplitLines(SubSeq(text, k + 1, Len(text)))

\* C3: the script written for a project directory starts with the shebang
\* line, holds the CONFIG= line, and its lines are the seven preamble lines
\* in order, a blank line, the lines of the stripped template body and a
\* final line break.
C3_ScriptContent ==
    [][(effects' = <<ScriptGenerated>>)
        => LET f == run_palace_sh'[AsPosix(project_dir)]
               lines == SplitLines(f.content)
               body == SplitLines(Strip(script_edit))
           IN /\ project_dir # << >>
              /\ f.exists
              /\ SubSeq(f.content, 1, 2) = <<SHEBANG, NL>>
              /\ \E i \in 1..Len(lines) : lines[i] = <<CONFIG_LINE>>
              /\ Len(lines) = 7 + 1 + Len(body) + 1
              /\ SubSeq(lines, 1, 7) = Preamble(project_dir)
              /\ lines[8] = << >>
              /\ SubSeq(lines, 9, Len(lines) - 1) = body
              /\ lines[Len(lines)] = << >>
              /\ \A i \in 1..5 : SubSeq(lines, 1, 7)[i] # <<CONFIG_LINE>>]_vars

\* C3 witness: a script was generated from a template that is whitespace
\* followed by a shebang line of its own.
C3_Witness ==
    /\ effects = <<ScriptGenerated>>
    /\ script_edit = <<NL, SHEBANG>>
    /\ run_palace_sh[AsPosix(project_dir)].exists

\* Nothing but dialogs: no file, field or process is touched.
OnlyDialogs ==
    /\ UNCHANGED <<windowVars, settings_json, run_palace_sh, running>>
    /\ \A i \in 1..Len(effects') : effects'[i].kind = "dialog"

\* C6: with project_dir unset the three buttons only show the missing
\* directory dialog; with the Gmsh path unset or not existing Launch Gmsh
\* only shows the missing gmsh dialog; a failed launch shows a dialog; in
\* each case settings, script and processes are untouched.
C6_MissingInputNoEffect ==
    [][/\ ((LaunchGmsh \/ GenerateScript \/ OpenProjectFolder)
             /\ project_dir = << >>)
            => (effects' = <<MissingProjectDir>> /\ OnlyDialogs)
       /\ \A ok \in BOOLEAN :
            (LaunchGmshWith(FALSE, ok) /\ project_dir # << >>)
               => (effects' = <<MissingGmsh>> /\ OnlyDialogs)
       /\ \A exists \in BOOLEAN, ok \in BOOLEAN :
            (LaunchGmshWith(exists, ok) /\ project_dir # << >>
               /\ gmsh_path = << >>)
               => (effects' = <<MissingGmsh>> /\ OnlyDialogs)
       /\ (LaunchGmshWith(TRUE, FALSE) /\ project_dir # << >>
             /\ gmsh_path # << >>)
            => (effects' = <<FailedToLaunch>> /\ OnlyDialogs)]_vars

\* C6 witness: Launch Gmsh refused a set project directory for its Gmsh path
\* while no script exists.
C6_Witness ==
    /\ running = "open"
    /\ effects = <<MissingGmsh>>
    /\ project_dir # << >>
    /\ \A d \in PosixDirs : ~run_palace_sh[d].exists

\* A settings file that is not a well-formed settings record.
Malformed(file) ==
    \/ file.form \in {"notjson", "nonobject"}
    \/ file.form = "object" /\ ~IsSavedRecord(file)

\* C7: loading a malformed settings.json raises nothing and leaves the
\* window at its defaults.
C7_MalformedLoadsDefaults ==
    [][(StartStep /\ Malformed(settings_json))
        => (running' = "open" /\ Window' = NewWindow)]_vars

\* C10: a change of mode leaves the mode's default template in the editor
\* and in settings.json together with the new mode; a load of a record with
\* a non-empty template ends with that template in the editor.
C10_ModeChangeResetsTemplate ==
    [][/\ ChangeMode
            => /\ script_edit' = DEFAULT_TEMPLATES[mode_combo']
               /\ IsSavedRecord(settings_json')
               /\ Record(settings_json').run_mode = mode_combo'
               /\ Record(settings_json').script_template
                     = DEFAULT_TEMPLATES[mode_combo']
       /\ (StartStep /\ settings_json.form = "object"
             /\ "script_template" \in settings_json.has
             /\ Record(settings_json).script_template # << >>)
            => script_edit' = Record(settings_json).script_template]_vars

\* C10 witness: the user typed a template and the mode is then another one,
\* with its default template shown and saved.
C10_Witness ==
    /\ running = "open"
    /\ mode_combo = SLURM
    /\ script_edit = DEFAULT_TEMPLATES[SLURM]
    /\ Record(settings_json).run_mode = SLURM
    /\ Record(settings_json).script_template = DEFAULT_TEMPLATES[SLURM]
    /\ effects = << >>

(***************************************************************************)
(* The schema tool, src/tools/infer_schema.py.                             *)
(*                                                                         *)
(* A JSON value is a record: kind is value_type's answer, str the text of  *)
(* a string, members the <<key, value>> pairs of an object in the order of *)
(* the document (the order of the dict json.loads builds), elems the       *)
(* elements of an array.                                                   *)
(***************************************************************************)
Json(kind, str, members, elems) ==
    [kind |-> kind, str |-> str, members |-> members, elems |-> elems]
Null == Json("null", "", << >>, << >>)
Bool == Json("boolean", "", << >>, << >>)
Num == Json("number", "", << >>, << >>)
Str(s) == Json("string", s, << >>, << >>)
Obj(members) == Json("object", "", members, << >>)
Arr(elems) == Json("array", "", << >>, elems)

\* value_type
value_type(value) == value.kind

\* Every string the tool sorts, in ascending order of Python's str
\* comparison (code points: "." and upper case before "[" and lower case).
StringOrder ==
    <<".", "Adaptive", "Boundaries", "Domains", "Driven", "Excitations",
      "Model", "NSample", "PostProcessing", "Problem", "Solver", "Sweep",
      "Transient", "Type", "Uniform", "[]", "array", "boolean", "null",
      "number", "object", "string">>

Rank(x) == CHOOSE i \in 1..Len(StringOrder) : StringOrder[i] = x

\* sorted(strings)
Sorted(strings) == SelectSeq(StringOrder, LAMBDA x : x \in strings)

\* Position of key in a sequence of <<key, value>> pairs, 0 when absent.
IndexOf(pairs, key) ==
    IF \E i \in 1..Len(pairs) : pairs[i][1] = key
    THEN CHOOSE i \in 1..Len(pairs) : pairs[i][1] = key
    ELSE 0

KeysOf(pairs) == {pairs[i][1] : i \in 1..Len(pairs)}

\* A schema node under construction: the dict merge_schema fills.  keys is
\* the set of keys the dict holds; properties keeps insertion order; items
\* is << >> or one node.
EmptySchema ==
    [keys |-> {}, types |-> {}, properties |-> << >>, items |-> << >>,
     required |-> {}, enum |-> {}]

\* schema.setdefault("_types", set()).add(kind)
AddType(schema, kind) ==
    [schema EXCEPT !.keys = @ \cup {"_types"}, !.types = @ \cup {kind}]

RECURSIVE merge_schema(_, _)
RECURSIVE MergeProperties(_, _)
RECURSIVE MergeItems(_, _)

\* The loop of merge_schema over value.items().
MergeProperties(properties, members) ==
    IF members = << >> THEN properties
    ELSE LET key == Head(members)[1]
             child == Head(members)[2]
             i == IndexOf(properties, key)
             merged ==
                IF i = 0
                THEN Append(properties, <<key, merge_schema(EmptySchema, child)>>)
                ELSE [properties EXCEPT
                        ![i] = <<key, merge_schema(properties[i][2], child)>>]
         IN MergeProperties(merged, Tail(members))

\* The loop of merge_schema over the elements of a list.
MergeItems(items_schema, elems) ==
    IF elems = << >> THEN items_schema
    ELSE MergeItems(merge_schema(items_schema, Head(elems)), Tail(elems))

\* A merge that assigns the kind of the value instead of adding it.
merge_schema_overwrites(schema, value) ==
    LET s1 == [schema EXCEPT !.keys = @ \cup {"_types"},
                             !.types = {value_type(value)}]
    IN IF value.kind = "object"
       THEN [s1 EXCEPT !.keys = @ \cup {"properties"},
                       !.properties = MergeProperties(@, value.members)]
       ELSE IF value.kind = "array"
       THEN [s1 EXCEPT !.keys = @ \cup {"items"},
                       !.items = <<MergeItems(IF @ = << >> THEN EmptySchema
                                              ELSE @[1], value.elems)>>]
       ELSE s1

merge_schema(schema, value) ==
    LET s1 == AddType(schema, value_type(value))
    IN IF value.kind = "object"
       THEN [s1 EXCEPT !.keys = @ \cup {"properties"},
                       !.properties = MergeProperties(@, value.members)]
       ELSE IF value.kind = "array"
       THEN [s1 EXCEPT !.keys = @ \cup {"items"},
                       !.items = <<MergeItems(IF @ = << >> THEN EmptySchema
                                              ELSE @[1], value.elems)>>]
       ELSE s1

\* ensure_object, ensure_enum, ensure_array and the two in-line edits of
\* apply_manual_rules, each on one node.
ensure_object(schema) == AddType(schema, "object")
ensure_enum(schema, values) ==
    [AddType(schema, "string") EXCEPT !.keys = @ \cup {"enum"},
                                      !.enum = @ \cup values]
\* An ensure_array that forgets the other types of the node.
ensure_array_only(schema) ==
    [schema EXCEPT !.keys = @ \cup {"_types"}, !.types = {"array"}]
ensure_array(schema) == AddType(schema, "array")
add_required(schema, names) ==
    [schema EXCEPT !.keys = @ \cup {"required"}, !.required = @ \cup names]

ApplyEdit(schema, edit) ==
    CASE edit.op = "enum" -> ensure_enum(schema, edit.values)
      [] edit.op = "array" -> ensure_array(schema)
      [] edit.op = "required" -> add_required(schema, edit.values)
      [] edit.op = "number" -> AddType(schema, "number")

\* ensure_path followed by an edit of the node it returns.
RECURSIVE ensure_path(_, _, _)
ensure_path(schema, path, edit) ==
    IF path = << >> THEN ApplyEdit(schema, edit)
    ELSE LET s1 == [ensure_object(schema) EXCEPT !.keys = @ \cup {"properties"}]
             key == Head(path)
             i == IndexOf(s1.properties, key)
             props == IF i = 0 THEN Append(s1.properties, <<key, EmptySchema>>)
                      ELSE s1.properties
             j == IndexOf(props, key)
         IN [s1 EXCEPT !.properties =
                [props EXCEPT ![j] =
                    <<key, ensure_path(props[j][2], Tail(path), edit)>>]]

RequiredTop == {"Problem", "Model", "Domains", "Boundaries", "Solver"}
ProblemTypes == {"Driven", "Transient"}
SweepTypes == {"Uniform", "Adaptive"}

apply_manual_rules(schema) ==
    LET s0 == add_required(schema, RequiredTop)
        s1 == ensure_path(s0, <<"Problem", "Type">>,
                          [op |-> "enum", values |-> ProblemTypes])
        s2 == ensure_path(s1, <<"Solver", "Sweep", "Type">>,
                          [op |-> "enum", values |-> SweepTypes])
        s3 == ensure_path(s2, <<"Solver", "Excitations">>,
                          [op |-> "array", values |-> {}])
        s4 == ensure_path(s3, <<"Boundaries", "PostProcessing">>,
                          [op |-> "required", values |-> {"NSample"}])
    IN ensure_path(s4, <<"Boundaries", "PostProcessing", "NSample">>,
                   [op |-> "number", values |-> {}])

\* schema_to_json: the emitted dict.  type holds the sorted type names and
\* type_is_list tells a list from a single name; required and enum are the
\* sorted lists; properties keeps the order of the schema's dict.
RECURSIVE schema_to_json(_)
schema_to_json(schema) ==
    LET types == Sorted(schema.types)
    IN [keys |-> (IF types # << >> THEN {"type"} ELSE {})
                 \cup (schema.keys \cap {"properties", "items", "required", "enum"}),
        type |-> types,
        type_is_list |-> Len(types) # 1 /\ types # << >>,
        properties |-> [i \in 1..Len(schema.properties) |->
                          <<schema.properties[i][1],
                            schema_to_json(schema.properties[i][2])>>],
        items |-> [i \in 1..Len(schema.items) |-> schema_to_json(schema.items[i])],
        required |-> Sorted(schema.required),
        enum |-> Sorted(schema.enum)]

\* json.dumps without sort_keys: the keys stay in insertion order.
json_dumps_unsorted(node) == node

\* json.dumps(..., sort_keys=True) of an emitted node: the keys of every
\* object, so the property names, come out sorted.
RECURSIVE json_dumps(_)
json_dumps(node) ==
    LET names == Sorted(KeysOf(node.properties))
    IN [node EXCEPT
          !.properties = [i \in 1..Len(names) |->
              <<names[i],
                json_dumps(node.properties[IndexOf(node.properties, names[i])][2])>>],
          !.items = [i \in 1..Len(node.items) |-> json_dumps(node.items[i])]]

\* The text main writes to palace.examples.schema.json.
schema_text(schema) ==
    [exists |-> TRUE,
     dollar_schema |-> "https://json-schema.org/draft/2020-12/schema",
     title |-> "Palace Examples Schema",
     body |-> <<json_dumps(schema_to_json(schema))>>]

\* An example file is known by its slot i; its path below the repository
\* root is EXAMPLE_DIRS[DirOf(i)]/example<i>.json, so that the order of the
\* slots is the order of the paths as strings.
EXAMPLE_DIRS ==
    <<"palace/examples/antenna", "palace/examples/coaxial", "palace/examples/cpw">>
DirOf(i) == IF i <= 2 THEN 1 ELSE IF i = 3 THEN 2 ELSE 3

\* sorted(files)
RECURSIVE SortedFiles(_)
SortedFiles(slots) ==
    IF slots = {} THEN << >>
    ELSE LET m == CHOOSE i \in slots : \A j \in slots : i <= j
         IN <<m>> \o SortedFiles(slots \ {m})

\* A key path of the report is the sequence of its pieces: keys, "." and
\* "[]".  No piece is a prefix of another, so comparing the pieces in turn
\* compares the strings.
RECURSIVE PathLess(_, _)
PathLess(p, q) ==
    IF p = << >> THEN q # << >>
    ELSE IF q = << >> THEN FALSE
    ELSE IF Head(p) = Head(q) THEN PathLess(Tail(p), Tail(q))
    ELSE Rank(Head(p)) < Rank(Head(q))

\* sorted(paths)
RECURSIVE SortedPaths(_)
SortedPaths(paths) ==
    IF paths = {} THEN << >>
    ELSE LET m == CHOOSE p \in paths : \A q \in paths : p = q \/ PathLess(p, q)
         IN <<m>> \o SortedPaths(paths \ {m})

\* path_types and path_files together: one entry per key path, in the order
\* the defaultdicts got their keys.
NotePath(acc, path, kind, file) ==
    LET i == IndexOf(acc, path)
    IN IF i = 0 THEN Append(acc, <<path, {kind}, {file}>>)
       ELSE [acc EXCEPT ![i] = <<path, @[2] \cup {kind}, @[3] \cup {file}>>]

RECURSIVE record_paths(_, _, _, _)
RECURSIVE RecordMembers(_, _, _, _)
RECURSIVE RecordItems(_, _, _, _)

RecordMembers(path, members, file, acc) ==
    IF members = << >> THEN acc
    ELSE LET key == Head(members)[1]
             child_path == IF path # << >> THEN path \o <<".", key>> ELSE <<key>>
         IN RecordMembers(path, Tail(members), file,
                          record_paths(child_path, Head(members)[2], file, acc))

RecordItems(item_path, elems, file, acc) ==
    IF elems = << >> THEN acc
    ELSE RecordItems(item_path, Tail(elems), file,
                     record_paths(item_path, Head(elems), file, acc))

record_paths(path, value, file, acc) ==
    LET a1 == NotePath(acc, path, value_type(value), file)
    IN IF value.kind = "object" THEN RecordMembers(path, value.members, file, a1)
       ELSE IF value.kind = "array"
       THEN RecordItems(path \o <<"[]">>, value.elems, file, a1)
       ELSE a1

\* write_report: the entries of report.md below its heading, one per key
\* path.
write_report(acc) ==
    LET paths == SortedPaths(KeysOf(acc))
    IN [exists |-> TRUE,
        entries |-> [i \in 1..Len(paths) |->
            LET e == acc[IndexOf(acc, paths[i])]
                types == Sorted(e[2])
            IN [path |-> paths[i], conflict |-> Len(types) > 1,
                types |-> types, files |-> SortedFiles(e[3])]]]

(***************************************************************************)
(* The validator of src/tests/test_schema.py.  TRUE when no assertion      *)
(* fails.                                                                  *)
(***************************************************************************)
SeqToSet(seq) == {seq[i] : i \in 1..Len(seq)}

RECURSIVE validate(_, _)
validate(schema, value) ==
    /\ "type" \in schema.keys => value_type(value) \in SeqToSet(schema.type)
    /\ "enum" \in schema.keys
          => (value.kind = "string" /\ value.str \in SeqToSet(schema.enum))
    /\ value.kind = "object" =>
          /\ "required" \in schema.keys
                => \A key \in SeqToSet(schema.required) : key \in KeysOf(value.members)
          /\ \A i \in 1..Len(value.members) :
                LET j == IndexOf(schema.properties, value.members[i][1])
                IN j # 0 => validate(schema.properties[j][2], value.members[i][2])
    /\ value.kind = "array" =>
          \A k \in 1..Len(schema.items) :
             schema.items[k].keys # {} =>
                \A i \in 1..Len(value.elems) : validate(schema.items[k], value.elems[i])

(***************************************************************************)
(* Example documents: a complete configuration, the same with one part     *)
(* changed at a time, the same with its keys in the opposite order, and    *)
(* documents that are no object.                                           *)
(***************************************************************************)
Base ==
    Obj(<< <<"Problem", Obj(<< <<"Type", Str("Driven")>> >>)>>,
           <<"Model", Obj(<< >>)>>,
           <<"Domains", Arr(<<Num, Obj(<< <<"Type", Null>> >>)>>)>>,
           <<"Boundaries",
             Obj(<< <<"PostProcessing", Obj(<< <<"NSample", Num>> >>)>> >>)>>,
           <<"Solver",
             Obj(<< <<"Sweep", Obj(<< <<"Type", Str("Uniform")>> >>)>>,
                    <<"Excitations", Num>> >>)>> >>)

\* doc with the value of key replaced.
With(doc, key, value) ==
    [doc EXCEPT !.members = [i \in 1..Len(@) |->
        IF @[i][1] = key THEN <<key, value>> ELSE @[i]]]

\* doc without key.
Without(doc, key) ==
    [doc EXCEPT !.members = SelectSeq(@, LAMBDA m : m[1] # key)]

RECURSIVE ReverseKeys(_)
ReverseKeys(v) ==
    [v EXCEPT
       !.members = [i \in 1..Len(@) |->
           <<@[Len(@) + 1 - i][1], ReverseKeys(@[Len(@) + 1 - i][2])>>],
       !.elems = [i \in 1..Len(@) |-> ReverseKeys(@[i])]]

Documents ==
    { Base,
      ReverseKeys(Base),
      With(Base, "Problem", Obj(<< <<"Type", Str("Eigenmode")>> >>)),
      Without(Base, "Model"),
      With(Base, "Boundaries", Obj(<< <<"PostProcessing", Obj(<< >>)>> >>)),
      With(Base, "Solver", Obj(<< <<"Excitations", Arr(<<Bool>>)>> >>)),
      With(Base, "Domains", Str("all")),
      Arr(<<Num, Arr(<<Null>>)>>),
      Null }

(***************************************************************************)
(* One run of the tool, step by step, followed by the test; the tool may   *)
(* be run again.                                                           *)
(***************************************************************************)
Slots == 1..MaxExamples
Dirs == 1..Len(EXAMPLE_DIRS)

AbsentSchema == [exists |-> FALSE, dollar_schema |-> "", title |-> "", body |-> << >>]
AbsentReport == [exists |-> FALSE, entries |-> << >>]
NoOutputs == [dir |-> FALSE, schema |-> AbsentSchema, report |-> AbsentReport]
\* Outputs an earlier version of the examples left behind.
OldOutputs ==
    [dir |-> TRUE,
     schema |-> [exists |-> TRUE, dollar_schema |-> "", title |-> "stale", body |-> << >>],
     report |-> [exists |-> TRUE, entries |-> << >>]]

\* The example files present: slot -> document.
Present(files) == {i \in DOMAIN files : files[i] # << >>}

\* The orders in which load_examples can meet the files: the directories in
\* the order of EXAMPLE_DIRS, skipping the missing ones, and the files of
\* one directory in any order (rglob).
Enumerations(dir_exists, files) ==
    LET found == {i \in Present(files) : dir_exists[DirOf(i)]}
        n == Cardinality(found)
    IN {order \in [1..n -> found] :
           /\ \A a, b \in 1..n : a # b => order[a] # order[b]
           /\ \A a, b \in 1..n : a < b => DirOf(order[a]) <= DirOf(order[b])}

\* load_examples: the dict, as <<file, document>> pairs in insertion order.
load_examples(files, order) ==
    [k \in 1..Len(order) |-> <<order[k], files[order[k]][1]>>]

\* main's test "if not examples".
\* A run that never takes the fatal exit.
no_examples_ignored(examples) == FALSE
no_examples(examples) == examples = << >>

ToolAt(dir_exists, files, out) ==
    [pc |-> "start", dir_exists |-> dir_exists, files |-> files, out |-> out,
     examples |-> << >>, next |-> 1, schema |-> EmptySchema, paths |-> << >>,
     failed |-> {}]

InitSchema ==
    /\ running = "closed"
    /\ project_dir = NewWindow.project_dir
    /\ gmsh_path = NewWindow.gmsh_path
    /\ project_dir_edit = NewWindow.project_dir_edit
    /\ gmsh_edit = NewWindow.gmsh_edit
    /\ geometry_edit = NewWindow.geometry_edit
    /\ mode_combo = NewWindow.mode_combo
    /\ script_edit = NewWindow.script_edit
    /\ settings_json = FileOf("absent")
    /\ run_palace_sh = [d \in PosixDirs |-> NoScript]
    /\ effects = << >>
    /\ \E dir_exists \in [Dirs -> BOOLEAN],
          files \in [Slots -> {<< >>} \cup {<<d>> : d \in Documents}],
          out \in {NoOutputs, OldOutputs} :
          /\ \A i \in Slots : files[i] # << >> => dir_exists[DirOf(i)]
          /\ tool = ToolAt(dir_exists, files, out)

\* main up to the loop: load the examples, stop when there are none.
LoadExamples ==
    /\ tool.pc = "start"
    /\ \E order \in Enumerations(tool.dir_exists, tool.files) :
          LET examples == load_examples(tool.files, order)
          IN tool' = [tool EXCEPT
                        !.examples = examples,
                        !.pc = IF no_examples(examples) THEN "fatal" ELSE "merging"]
    /\ UNCHANGED guiVars

\* One turn of main's loop over examples.items().
MergeExample ==
    /\ tool.pc = "merging"
    /\ tool.next <= Len(tool.examples)
    /\ LET file == tool.examples[tool.next][1]
           data == tool.examples[tool.next][2]
       IN tool' = [tool EXCEPT
                     !.schema = merge_schema(@, data),
                     !.paths = record_paths(<< >>, data, file, @),
                     !.next = @ + 1]
    /\ UNCHANGED guiVars

ApplyManualRules ==
    /\ tool.pc = "merging"
    /\ tool.next > Len(tool.examples)
    /\ tool' = [tool EXCEPT !.schema = apply_manual_rules(@), !.pc = "ruled"]
    /\ UNCHANGED guiVars

\* schema_dir.mkdir(exist_ok=True) and the write of the schema.
WriteSchema ==
    /\ tool.pc = "ruled"
    /\ tool' = [tool EXCEPT !.out.dir = TRUE,
                            !.out.schema = schema_text(tool.schema),
                            !.pc = "schema_written"]
    /\ UNCHANGED guiVars

WriteReport ==
    /\ tool.pc = "schema_written"
    /\ tool' = [tool EXCEPT !.out.report = write_report(tool.paths),
                            !.pc = "done"]
    /\ UNCHANGED guiVars

\* TestSchemaExamples.test_examples_validate on the schema just written:
\* failed holds the example files whose subTest fails.
RunTest ==
    /\ tool.pc = "done"
    /\ tool' = [tool EXCEPT
                  !.failed = {i \in Present(tool.files) :
                                 ~validate(tool.out.schema.body[1], tool.files[i][1])},
                  !.pc = "tested"]
    /\ UNCHANGED guiVars

\* The tool is started again on the same examples.
Rerun ==
    /\ tool.pc \in {"done", "tested", "fatal"}
    /\ tool' = ToolAt(tool.dir_exists, tool.files, tool.out)
    /\ UNCHANGED guiVars

NextSchema ==
    \/ LoadExamples
    \/ MergeExample
    \/ ApplyManualRules
    \/ WriteSchema
    \/ WriteReport
    \/ RunTest
    \/ Rerun

SchemaSpec == InitSchema /\ [][NextSchema]_vars

(***************************************************************************)
(* Claims about the schema tool.                                           *)
(***************************************************************************)
\* The value of key in an object: <<value>>, or << >> when v is no object
\* or has no such key.
Get(v, key) ==
    IF v.kind = "object" /\ IndexOf(v.members, key) # 0
    THEN <<v.members[IndexOf(v.members, key)][2]>>
    ELSE << >>

\* Get along a path of keys.
RECURSIVE GetPath(_, _)
GetPath(v, keys) ==
    IF keys = << >> THEN <<v>>
    ELSE LET m == Get(v, Head(keys))
         IN IF m = << >> THEN << >> ELSE GetPath(m[1], Tail(keys))

IsStringIn(found, values) ==
    found # << >> => (found[1].kind = "string" /\ found[1].str \in values)

\* A document that meets the hand-written rules of apply_manual_rules.
Conforms(doc) ==
    /\ doc.kind = "object" => RequiredTop \subseteq KeysOf(doc.members)
    /\ IsStringIn(GetPath(doc, <<"Problem", "Type">>), ProblemTypes)
    /\ IsStringIn(GetPath(doc, <<"Solver", "Sweep", "Type">>), SweepTypes)
    /\ LET pp == GetPath(doc, <<"Boundaries", "PostProcessing">>)
       IN (pp # << >> /\ pp[1].kind = "object")
             => "NSample" \in KeysOf(pp[1].members)

\* C4 as claimed: the generated schema accepts every example it was
\* inferred from.
C4_ExamplesValidate == tool.pc = "tested" => tool.failed = {}

\* C4 amended: the generated schema accepts every example that meets the
\* hand-written rules: an object has the five required keys, Problem.Type
\* and Solver.Sweep.Type are, when present, strings of their enumerations,
\* and an object Boundaries.PostProcessing has the key NSample.
C4_ConformingExamplesValidate ==
    tool.pc = "tested" =>
        \A i \in Present(tool.files) :
            Conforms(tool.files[i][1]) => i \notin tool.failed

\* C4 witness: two different conforming examples were merged and tested,
\* and both validate.
C4_Witness ==
    /\ tool.pc = "tested"
    /\ Cardinality(Present(tool.files)) >= 2
    /\ \E i, j \in Present(tool.files) :
          /\ tool.files[i] # tool.files[j]
          /\ Conforms(tool.files[i][1]) /\ Conforms(tool.files[j][1])
          /\ tool.files[j][1].kind = "object"
          /\ GetPath(tool.files[j][1], <<"Solver", "Excitations">>) # << >>
          /\ GetPath(tool.files[j][1], <<"Solver", "Excitations">>)[1].kind = "array"
          /\ {i, j} \cap tool.failed = {}

\* A document with the keys of every object in ascending order.
RECURSIVE Normalize(_)
Normalize(v) ==
    LET names == Sorted(KeysOf(v.members))
    IN [v EXCEPT
          !.members = [i \in 1..Len(names) |->
              <<names[i], Normalize(v.members[IndexOf(v.members, names[i])][2])>>],
          !.elems = [i \in 1..Len(@) |-> Normalize(@[i])]]

\* The examples with normalized documents, in the order of their paths.
CanonicalExamples(files) ==
    LET order == SortedFiles(Present(files))
    IN [k \in 1..Len(order) |-> <<order[k], Normalize(files[order[k]][1])>>]

RECURSIVE MergeAll(_, _)
MergeAll(schema, examples) ==
    IF examples = << >> THEN schema
    ELSE MergeAll(merge_schema(schema, Head(examples)[2]), Tail(examples))

RECURSIVE RecordAll(_, _)
RecordAll(acc, examples) ==
    IF examples = << >> THEN acc
    ELSE RecordAll(record_paths(<< >>, Head(examples)[2], Head(examples)[1], acc),
                   Tail(examples))

\* C5: whenever a run has finished, the schema and the report it wrote are
\* those of the examples with their keys sorted, merged in the order of
\* their paths: the outputs depend neither on the order the files were
\* met in nor on the order of the keys in a document, and a further run
\* writes them again.
C5_Deterministic ==
    tool.pc \in {"done", "tested"} =>
        LET canon == CanonicalExamples(tool.files)
        IN /\ tool.out.schema
                 = schema_text(apply_manual_rules(MergeAll(EmptySchema, canon)))
           /\ tool.out.report = write_report(RecordAll(<< >>, canon))

\* C5 witness: a finished run that met the second file before the first,
\* on two documents that differ only in the order of their keys.
C5_Witness ==
    /\ tool.pc = "done"
    /\ Len(tool.examples) = 2
    /\ tool.examples[1][1] > tool.examples[2][1]
    /\ tool.examples[1][2] # tool.examples[2][2]
    /\ Normalize(tool.examples[1][2]) = Normalize(tool.examples[2][2])

\* C8: with no example file under an existing directory the run ends fatal
\* and the schema directory, the schema and the report stay as they were.
C8_NoExamplesFatal ==
    [][(\A i \in Present(tool.files) : ~tool.dir_exists[DirOf(i)])
        => /\ tool'.out = tool.out
           /\ tool.pc = "start" => tool'.pc = "fatal"
           /\ tool'.pc \in {"start", "fatal"}]_vars

\* C8 witness: a run ended fatal beside an empty example directory and
\* earlier outputs.
C8_Witness ==
    /\ tool.pc = "fatal"
    /\ tool.out = OldOutputs
    /\ \E d \in Dirs : tool.dir_exists[d]
    /\ \E d \in Dirs : ~tool.dir_exists[d]

\* A path into a document or a schema: keys, and "[]" for the elements of
\* an array.
RECURSIVE ValuesAt(_, _)
ValuesAt(v, path) ==
    IF path = << >> THEN {v}
    ELSE IF Head(path) = "[]"
    THEN UNION {ValuesAt(v.elems[i], Tail(path)) : i \in 1..Len(v.elems)}
    ELSE UNION {ValuesAt(v.members[i][2], Tail(path)) :
                   i \in {j \in 1..Len(v.members) : v.members[j][1] = Head(path)}}

RECURSIVE PathsOf(_)
PathsOf(v) ==
    {<< >>}
    \cup UNION {{<<v.members[i][1]>> \o p : p \in PathsOf(v.members[i][2])} :
                   i \in 1..Len(v.members)}
    \cup (IF v.kind = "array" THEN {<<"[]">>} ELSE {})
    \cup UNION {{<<"[]">> \o p : p \in PathsOf(v.elems[i])} : i \in 1..Len(v.elems)}

\* The node of a schema at a path: <<node>>, or << >> when there is none.
RECURSIVE SchemaAt(_, _)
SchemaAt(schema, path) ==
    IF path = << >> THEN <<schema>>
    ELSE IF Head(path) = "[]"
    THEN IF schema.items = << >> THEN << >>
         ELSE SchemaAt(schema.items[1], Tail(path))
    ELSE LET i == IndexOf(schema.properties, Head(path))
         IN IF i = 0 THEN << >> ELSE SchemaAt(schema.properties[i][2], Tail(path))

RECURSIVE SchemaPaths(_)
SchemaPaths(schema) ==
    {<< >>}
    \cup UNION {{<<schema.properties[i][1]>> \o p :
                    p \in SchemaPaths(schema.properties[i][2])} :
                   i \in 1..Len(schema.properties)}
    \cup UNION {{<<"[]">> \o p : p \in SchemaPaths(schema.items[i])} :
                   i \in 1..Len(schema.items)}

\* The documents merged so far.
Merged == {tool.examples[k][2] : k \in 1..(tool.next - 1)}

\* The names in a sequence ascend.
Ascending(names) ==
    \A a, b \in 1..Len(names) : a < b => Rank(names[a]) < Rank(names[b])

\* C9: while and after the examples are merged, the schema has a node at
\* exactly the key paths of the merged documents, the types of a node are
\* the kinds of the values at its path, and its property keys are the keys
\* of the objects at its path; an emitted type is the one name of a
\* one-member set and otherwise the ascending list of the set's names.
C9_UnionOfKinds ==
    /\ tool.pc = "merging" =>
          LET observed == UNION {PathsOf(d) : d \in Merged}
          IN /\ tool.next > 1 => SchemaPaths(tool.schema) = observed
             /\ \A path \in observed :
                   LET node == SchemaAt(tool.schema, path)
                       values == UNION {ValuesAt(d, path) : d \in Merged}
                   IN /\ node # << >>
                      /\ node[1].types = {value_type(v) : v \in values}
                      /\ KeysOf(node[1].properties)
                            = UNION {KeysOf(v.members) : v \in values}
    /\ tool.pc \in {"schema_written", "done", "tested"} =>
          \A path \in SchemaPaths(tool.schema) :
             LET node == SchemaAt(tool.schema, path)[1]
                 emitted == SchemaAt(tool.out.schema.body[1], path)
             IN /\ emitted # << >>
                /\ SeqToSet(emitted[1].type) = node.types
                /\ Len(emitted[1].type) = Cardinality(node.types)
                /\ Ascending(emitted[1].type)
                /\ emitted[1].type_is_list = (Cardinality(node.types) > 1)
                /\ ("type" \in emitted[1].keys) = (node.types # {})

\* C9 witness: two examples are merged whose roots are of different kinds
\* and which hold arrays.
C9_Witness ==
    /\ tool.pc = "merging"
    /\ tool.next = 3
    /\ Cardinality(tool.schema.types) = 2
    /\ tool.schema.items # << >>
    /\ SchemaAt(tool.schema, <<"Domains", "[]">>) # << >>
    /\ Cardinality(SchemaAt(tool.schema, <<"Domains", "[]">>)[1].types) = 2

====
